---- MODULE Spec2Model ----
(***************************************************************************)
(* Model of src/TSP.py: the nearest-neighbour heuristic tsp_greedy and the *)
(* exact search tsp_branch_and_bound, run one after the other on the same  *)
(* distance matrix and start, as the main block does (lines 107 and 113).  *)
(* Python lists are sequences; a Python index i of a list of length len is *)
(* position Norm(len, i) + 1 of the sequence.                              *)
(***************************************************************************)
EXTENDS Integers, Sequences, FiniteSets

VARIABLES distance_matrix, start, pc, raised,
          visited, path, total_distance, current,
          stack, snap, best_path, best_distance, nodes, leaves,
          greedy_path, greedy_distance, bb_path, bb_distance

vars == <<distance_matrix, start, pc, raised,
          visited, path, total_distance, current,
          stack, snap, best_path, best_distance, nodes, leaves,
          greedy_path, greedy_distance, bb_path, bb_distance>>

\* distance_matrix, start   the arguments of both solvers
\* pc                       the function the program is in
\* raised                   the functions that ended with IndexError
\* visited, path            the locals of the running solver (both have them)
\* total_distance, current  the other locals of tsp_greedy
\* stack                    the activations of backtrack, the root first
\* best_path, best_distance the nonlocals of backtrack
\* greedy_path, ...         the results bound at lines 107 and 113
\* History, not in the code: snap holds, for each activation, the path and
\* the marks of its caller before the descent; nodes counts the calls of
\* backtrack and leaves those that found a complete path.

\* Largest number of locations and largest single distance of the inputs.
MaxN == 4
MaxDist == 2

\* math.inf, the initial best_distance; every distance is >= 0.
INF == -1

n == Len(distance_matrix)

---------------------------------------------------------------------------
\* Python list indexing.

\* list[i] raises IndexError unless -len <= i < len.
InRange(len, i) == -len <= i /\ i < len

\* A negative index counts from the end of the list.
Norm(len, i) == IF i < 0 THEN len + i ELSE i

\* list[i] for an index in range.
Get(list, i) == list[Norm(Len(list), i) + 1]

\* list[i] = v for an index in range.
Put(list, i, v) == [list EXCEPT ![Norm(Len(list), i) + 1] = v]

\* distance_matrix[i][j]
Dist(i, j) == Get(Get(distance_matrix, i), j)

\* path[-1]
Last(list) == list[Len(list)]

\* path.pop()
Pop(list) == SubSeq(list, 1, Len(list) - 1)

\* [False] * n
AllFalse == [k \in 1..n |-> FALSE]

---------------------------------------------------------------------------
\* Inputs: square, symmetric, zero-diagonal matrices of non-negative entries.

Pairs(m) == {pr \in (1..m) \X (1..m) : pr[1] < pr[2]}

Matrices(m) ==
    { [i \in 1..m |-> [j \in 1..m |->
          IF i = j THEN 0
          ELSE IF i < j THEN f[<<i, j>>] ELSE f[<<j, i>>]]] :
      f \in [Pairs(m) -> 0..MaxDist] }

InitLocals ==
    /\ pc = "main_greedy"
    /\ raised = {}
    /\ visited = <<>>
    /\ path = <<>>
    /\ total_distance = 0
    /\ current = 0
    /\ stack = <<>>
    /\ snap = <<>>
    /\ best_path = <<>>
    /\ best_distance = INF
    /\ nodes = 0
    /\ leaves = 0
    /\ greedy_path = <<>>
    /\ greedy_distance = 0
    /\ bb_path = <<>>
    /\ bb_distance = 0

\* Valid inputs: n >= 1 and start in [0, n).
Init ==
    /\ distance_matrix \in UNION {Matrices(m) : m \in 1..MaxN}
    /\ start \in 0..(Len(distance_matrix) - 1)
    /\ InitLocals

\* Any input: n >= 0 and start also negative or past the end.
InitAnyStart ==
    /\ distance_matrix \in UNION {Matrices(m) : m \in 0..MaxN}
    /\ start \in (-(Len(distance_matrix) + 1))..Len(distance_matrix)
    /\ InitLocals

---------------------------------------------------------------------------
\* tsp_greedy

\* The list [(distance_matrix[current][j], j) for j in range(n) if not visited[j]].
RECURSIVE Candidates(_, _, _)
Candidates(vis, cur, j) ==
    IF j >= n THEN <<>>
    ELSE IF ~Get(vis, j)
         THEN <<<<Dist(cur, j), j>>>> \o Candidates(vis, cur, j + 1)
         ELSE Candidates(vis, cur, j + 1)

\* Fault variant of KeepsIncumbent: a later element of equal key replaces
\* the incumbent.
KeepsIncumbent_strict(inc, x) == ~(x[1] <= inc[1])

\* min(..., key=lambda x: x[0]) keeps the incumbent unless a later element's
\* key is strictly smaller.
KeepsIncumbent(inc, x) == ~(x[1] < inc[1])

RECURSIVE MinByKey(_, _)
MinByKey(inc, rest) ==
    IF rest = <<>> THEN inc
    ELSE IF KeepsIncumbent(inc, Head(rest))
         THEN MinByKey(inc, Tail(rest))
         ELSE MinByKey(Head(rest), Tail(rest))

\* Lines 42-45: the nearest unvisited city.
NextCity(vis, cur) ==
    LET c == Candidates(vis, cur, 0) IN MinByKey(Head(c), Tail(c))[2]

\* Fault variant of ReturnDistance: the edge back to start is left out.
ReturnDistance_open(total, cur) == total

\* Line 52: the running total plus the edge back to start.
ReturnDistance(total, cur) == total + Dist(cur, start)

\* Fault variant of Closed: start is not appended again.
Closed_open(p) == p

\* Lines 53 and 88: the path closed by a second occurrence of start.
Closed(p) == Append(p, start)

\* Lines 33-38, start in range.
GreedyCall ==
    /\ pc = "main_greedy"
    /\ InRange(n, start)
    /\ visited' = Put(AllFalse, start, TRUE)
    /\ path' = <<start>>
    /\ total_distance' = 0
    /\ current' = start
    /\ pc' = "greedy"
    /\ UNCHANGED <<distance_matrix, start, raised, stack, snap, best_path,
                   best_distance, nodes, leaves, greedy_path, greedy_distance,
                   bb_path, bb_distance>>

\* Line 36, visited[start] = True with start out of range: IndexError.
GreedyRaise ==
    /\ pc = "main_greedy"
    /\ ~InRange(n, start)
    /\ raised' = raised \cup {"tsp_greedy"}
    /\ pc' = "main_bb"
    /\ UNCHANGED <<distance_matrix, start, visited, path, total_distance,
                   current, stack, snap, best_path, best_distance, nodes,
                   leaves, greedy_path, greedy_distance, bb_path, bb_distance>>

\* Lines 40-49: one iteration of the loop over range(n - 1).
GreedyStep ==
    /\ pc = "greedy"
    /\ Len(path) < n
    /\ LET next_city == NextCity(visited, current) IN
         /\ path' = Append(path, next_city)
         /\ total_distance' = total_distance + Dist(current, next_city)
         /\ visited' = Put(visited, next_city, TRUE)
         /\ current' = next_city
    /\ UNCHANGED <<distance_matrix, start, pc, raised, stack, snap, best_path,
                   best_distance, nodes, leaves, greedy_path, greedy_distance,
                   bb_path, bb_distance>>

\* Lines 51-54 and the assignment of line 107.
GreedyReturn ==
    /\ pc = "greedy"
    /\ Len(path) >= n
    /\ greedy_path' = Closed(path)
    /\ greedy_distance' = ReturnDistance(total_distance, current)
    /\ pc' = "main_bb"
    /\ path' = <<>>
    /\ visited' = <<>>
    /\ total_distance' = 0
    /\ current' = 0
    /\ UNCHANGED <<distance_matrix, start, raised, stack, snap, best_path,
                   best_distance, nodes, leaves, bb_path, bb_distance>>

---------------------------------------------------------------------------
\* tsp_branch_and_bound

\* a < b where b may be math.inf and a is finite.
LessThan(a, b) == b = INF \/ a < b

\* Fault variant of Improves: a tour of equal length replaces the best one.
Improves_orEqual(total, best) == best = INF \/ total <= best

\* Line 69: a complete tour replaces the best one.
Improves(total, best) == LessThan(total, best)

\* Line 78: the branch is explored, not pruned.
Promising(projected, best) == LessThan(projected, best)

\* Fault variant of ClosingTotal: the edge back to start is left out.
ClosingTotal_open(cd, city) == cd

\* Line 68: the length of the complete tour.
ClosingTotal(cd, city) == cd + Dist(city, start)

\* Fault variant of Projected: the edge is measured from start, not from the
\* current city.
Projected_fromStart(cd, city, next) == cd + Dist(start, next)

\* Line 77: the distance of the path extended by next.
Projected(cd, city, next) == cd + Dist(city, next)

\* Fault variant of Mark: the child is not marked visited.
Mark_none(vis, city) == vis

\* Line 79: visited[next_city] = True
Mark(vis, city) == Put(vis, city, TRUE)

\* A call of backtrack: its parameter current_distance, its local
\* current_city, the loop variable next_city and whether the call is still
\* at its entry (line 64) or inside the loop (line 75).
Frame(cd, city) ==
    [current_distance |-> cd, current_city |-> city, next_city |-> 0,
     line |-> 64]

Top == stack[Len(stack)]

\* Lines 58-60 and 85-87, start in range: the root call of backtrack.
BBCall ==
    /\ pc = "main_bb"
    /\ InRange(n, start)
    /\ best_path' = <<>>
    /\ best_distance' = INF
    /\ visited' = Put(AllFalse, start, TRUE)
    /\ path' = <<start>>
    /\ stack' = <<Frame(0, start)>>
    /\ snap' = <<[path |-> <<>>, visited |-> <<>>]>>
    /\ nodes' = 1
    /\ leaves' = 0
    /\ pc' = "bb"
    /\ UNCHANGED <<distance_matrix, start, raised, total_distance, current,
                   greedy_path, greedy_distance, bb_path, bb_distance>>

\* Line 86, visited[start] = True with start out of range: IndexError.
BBRaise ==
    /\ pc = "main_bb"
    /\ ~InRange(n, start)
    /\ raised' = raised \cup {"tsp_branch_and_bound"}
    /\ pc' = "done"
    /\ UNCHANGED <<distance_matrix, start, visited, path, total_distance,
                   current, stack, snap, best_path, best_distance, nodes,
                   leaves, greedy_path, greedy_distance, bb_path, bb_distance>>

\* Fault variant of AfterReturn: line 83 is missing, the child stays marked.
AfterReturn_noUnmark(stk, p, vis) ==
    IF Len(stk) = 1
    THEN [stack |-> <<>>, path |-> p, visited |-> vis]
    ELSE LET caller == stk[Len(stk) - 1] IN
         [stack |-> [Pop(stk) EXCEPT ![Len(stk) - 1].next_city =
                                         caller.next_city + 1],
          path |-> Pop(p),
          visited |-> vis]

\* Fault variant of AfterReturn: line 82 is missing, the child stays on the
\* path.
AfterReturn_noPop(stk, p, vis) ==
    IF Len(stk) = 1
    THEN [stack |-> <<>>, path |-> p, visited |-> vis]
    ELSE LET caller == stk[Len(stk) - 1] IN
         [stack |-> [Pop(stk) EXCEPT ![Len(stk) - 1].next_city =
                                         caller.next_city + 1],
          path |-> p,
          visited |-> Put(vis, caller.next_city, FALSE)]

\* The return of the top call and, in its caller, lines 82-83 and the
\* advance of the caller's loop.  The root call returns to line 88.
AfterReturn(stk, p, vis) ==
    IF Len(stk) = 1
    THEN [stack |-> <<>>, path |-> p, visited |-> vis]
    ELSE LET caller == stk[Len(stk) - 1] IN
         [stack |-> [Pop(stk) EXCEPT ![Len(stk) - 1].next_city =
                                         caller.next_city + 1],
          path |-> Pop(p),
          visited |-> Put(vis, caller.next_city, FALSE)]

\* Lines 67-72: a complete path.
Complete ==
    /\ pc = "bb"
    /\ stack # <<>>
    /\ Top.line = 64
    /\ Len(path) = n
    /\ LET total == ClosingTotal(Top.current_distance, Top.current_city)
           r == AfterReturn(stack, path, visited) IN
         /\ IF Improves(total, best_distance)
            THEN best_distance' = total /\ best_path' = path
            ELSE UNCHANGED <<best_distance, best_path>>
         /\ stack' = r.stack
         /\ path' = r.path
         /\ visited' = r.visited
    /\ snap' = Pop(snap)
    /\ leaves' = leaves + 1
    /\ UNCHANGED <<distance_matrix, start, pc, raised, total_distance,
                   current, nodes, greedy_path, greedy_distance, bb_path,
                   bb_distance>>

\* The call is inside the loop of line 75 with a city still to try.
InLoop ==
    /\ pc = "bb"
    /\ stack # <<>>
    /\ ~(Top.line = 64 /\ Len(path) = n)
    /\ Top.next_city < n

\* Lines 75-76: next_city is visited already.
Skip ==
    /\ InLoop
    /\ Get(visited, Top.next_city)
    /\ stack' = [stack EXCEPT ![Len(stack)].next_city = @ + 1,
                              ![Len(stack)].line = 75]
    /\ UNCHANGED <<distance_matrix, start, pc, raised, visited, path,
                   total_distance, current, snap, best_path, best_distance,
                   nodes, leaves, greedy_path, greedy_distance, bb_path,
                   bb_distance>>

\* Lines 77-78: the projected distance does not beat the best tour.
Prune ==
    /\ InLoop
    /\ ~Get(visited, Top.next_city)
    /\ ~Promising(Projected(Top.current_distance, Top.current_city,
                            Top.next_city), best_distance)
    /\ stack' = [stack EXCEPT ![Len(stack)].next_city = @ + 1,
                              ![Len(stack)].line = 75]
    /\ UNCHANGED <<distance_matrix, start, pc, raised, visited, path,
                   total_distance, current, snap, best_path, best_distance,
                   nodes, leaves, greedy_path, greedy_distance, bb_path,
                   bb_distance>>

\* Lines 77-81: descend into the child next_city.
Descend ==
    /\ InLoop
    /\ ~Get(visited, Top.next_city)
    /\ LET next_city == Top.next_city
           projected_distance ==
               Projected(Top.current_distance, Top.current_city, next_city) IN
         /\ Promising(projected_distance, best_distance)
         /\ visited' = Mark(visited, next_city)
         /\ path' = Append(path, next_city)
         /\ stack' = Append([stack EXCEPT ![Len(stack)].line = 75],
                            Frame(projected_distance, next_city))
    /\ snap' = Append(snap, [path |-> path, visited |-> visited])
    /\ nodes' = nodes + 1
    /\ UNCHANGED <<distance_matrix, start, pc, raised, total_distance,
                   current, best_path, best_distance, leaves, greedy_path,
                   greedy_distance, bb_path, bb_distance>>

\* Line 75 exhausted: the call returns.
LoopExit ==
    /\ pc = "bb"
    /\ stack # <<>>
    /\ ~(Top.line = 64 /\ Len(path) = n)
    /\ Top.next_city >= n
    /\ LET r == AfterReturn(stack, path, visited) IN
         /\ stack' = r.stack
         /\ path' = r.path
         /\ visited' = r.visited
    /\ snap' = Pop(snap)
    /\ UNCHANGED <<distance_matrix, start, pc, raised, total_distance,
                   current, best_path, best_distance, nodes, leaves,
                   greedy_path, greedy_distance, bb_path, bb_distance>>

\* Lines 88-89 and the assignment of line 113.
BBReturn ==
    /\ pc = "bb"
    /\ stack = <<>>
    /\ best_path' = Closed(best_path)
    /\ bb_path' = Closed(best_path)
    /\ bb_distance' = best_distance
    /\ pc' = "done"
    /\ UNCHANGED <<distance_matrix, start, raised, visited, path,
                   total_distance, current, stack, snap, best_distance, nodes,
                   leaves, greedy_path, greedy_distance>>

---------------------------------------------------------------------------

Next ==
    \/ GreedyCall
    \/ GreedyStep
    \/ GreedyReturn
    \/ BBCall
    \/ Complete
    \/ Skip
    \/ Prune
    \/ Descend
    \/ LoopExit
    \/ BBReturn

NextAnyStart ==
    \/ Next
    \/ GreedyRaise
    \/ BBRaise

Spec == Init /\ [][Next]_vars

\* The program is sequential and never waits: a step that can be taken is.
FairSpec == Init /\ [][Next]_vars /\ WF_vars(Next)

SpecAnyStart == InitAnyStart /\ [][NextAnyStart]_vars

---------------------------------------------------------------------------
\* Reference definitions the claims are stated with.

Cities == 0..(n - 1)

\* start is a valid index: in [0, n).
ValidStart == 0 <= start /\ start < n

\* The set of entries of a sequence.
Range(seq) == {seq[k] : k \in 1..Len(seq)}

\* The sum of distance[p[k]][p[k+1]] over the consecutive entries of p.
RECURSIVE EdgeSum(_)
EdgeSum(p) ==
    IF Len(p) <= 1 THEN 0
    ELSE distance_matrix[p[1] + 1][p[2] + 1] + EdgeSum(Tail(p))

\* p holds every index 0..n-1 exactly once and begins with start.
IsOrder(p) ==
    /\ Len(p) = n
    /\ Range(p) = Cities
    /\ p[1] = start

\* Every arrangement of the elements of S.
RECURSIVE Perms(_)
Perms(S) ==
    IF S = {} THEN {<<>>}
    ELSE UNION {{<<x>> \o p : p \in Perms(S \ {x})} : x \in S}

\* Every order of the n indices that begins with start.
Orders == {<<start>> \o p : p \in Perms(Cities \ {start})}

\* The length of the closed tour start -> ... -> start through the order p.
TourLength(p) == EdgeSum(Append(p, start))

\* The minimum closed-tour length over all orders.
Optimum ==
    LET lengths == {TourLength(p) : p \in Orders} IN
    CHOOSE d \in lengths : \A e \in lengths : d <= e

\* a comes before b in lexicographic order.
LexLess(a, b) ==
    \E k \in 1..Len(a) :
        /\ a[k] < b[k]
        /\ \A i \in 1..(k - 1) : a[i] = b[i]

\* The first minimum-length order under ascending-index exploration.
FirstOptimal ==
    LET best == {p \in Orders : TourLength(p) = Optimum} IN
    CHOOSE p \in best : \A q \in best \ {p} : LexLess(p, q)

\* The first order of all under ascending-index exploration.
FirstOrder == CHOOSE p \in Orders : \A q \in Orders \ {p} : LexLess(p, q)

\* The indices marked in a visited list.
Marked(vis) == {c \in Cities : vis[c + 1]}

\* tsp_greedy has returned to the caller.
GreedyReturned == pc \in {"main_bb", "bb", "done"} /\ "tsp_greedy" \notin raised

\* tsp_branch_and_bound has returned to the caller.
BBReturned == pc = "done" /\ "tsp_branch_and_bound" \notin raised

\* k!
RECURSIVE Factorial(_)
Factorial(k) == IF k <= 0 THEN 1 ELSE k * Factorial(k - 1)

\* The number of nodes of the full search tree: the sum over the depths
\* k = 0..n-1 of (n-1)! / (n-1-k)!.
RECURSIVE TreeSize(_)
TreeSize(m) == IF m <= 0 THEN 1 ELSE 1 + m * TreeSize(m - 1)

---------------------------------------------------------------------------
\* Properties.

\* C1: on a valid matrix and start, the total distance tsp_branch_and_bound
\* returns is the minimum closed-tour length over all orders of the other
\* n-1 indices.
C1_BranchAndBoundOptimal == BBReturned => bb_distance = Optimum

\* A returned optimum on four locations where some tour is longer.
C1_Witness ==
    /\ BBReturned
    /\ n = 4
    /\ \E p \in Orders : TourLength(p) > Optimum

\* p has length n+1, begins and ends with start, and its first n entries
\* hold every index exactly once.
IsClosedTour(p) ==
    /\ Len(p) = n + 1
    /\ p[1] = start
    /\ p[n + 1] = start
    /\ Range(SubSeq(p, 1, n)) = Cities

\* C2: both solvers return a path of length n+1 that begins and ends with
\* start and whose first n entries hold every index 0..n-1 exactly once.
C2_ValidTours ==
    /\ GreedyReturned => IsClosedTour(greedy_path)
    /\ BBReturned => IsClosedTour(bb_path)

\* Both solvers have returned on at least three locations.
C2_Witness == GreedyReturned /\ BBReturned /\ n >= 3

\* C3: the sum of distance[path[k]][path[k+1]] over the returned path equals
\* the returned total distance, for both solvers.
C3_RoundTrip ==
    /\ GreedyReturned => EdgeSum(greedy_path) = greedy_distance
    /\ BBReturned => EdgeSum(bb_path) = bb_distance

\* Both solvers have returned tours of positive length that differ.
C3_Witness ==
    /\ GreedyReturned
    /\ BBReturned
    /\ bb_distance > 0
    /\ greedy_path # bb_path

\* C4: the total distance of tsp_branch_and_bound is at most that of
\* tsp_greedy on the same matrix and start.
C4_Dominance ==
    GreedyReturned /\ BBReturned =>
        bb_distance # INF /\ bb_distance <= greedy_distance

\* The heuristic returned a tour strictly longer than the exact one.
C4_Witness == GreedyReturned /\ BBReturned /\ bb_distance < greedy_distance

\* C5: once the recorded best distance is the minimum, the recorded best
\* path is the lexicographically smallest minimum-length order (pruning has
\* not discarded it and no later tour of equal length replaces it), and it
\* is the path returned.
C5_FirstOptimalWins ==
    /\ pc = "bb" /\ best_distance = Optimum => best_path = FirstOptimal
    /\ BBReturned => bb_path = Append(FirstOptimal, start)

\* The search has completed a second tour of minimum length that is not the
\* recorded one, on an input where some tour is longer.
C5_Witness ==
    /\ pc = "bb"
    /\ stack # <<>>
    /\ Top.line = 64
    /\ Len(path) = n
    /\ best_distance = Optimum
    /\ path # best_path
    /\ TourLength(path) = Optimum
    /\ \E p \in Orders : TourLength(p) > Optimum

\* C6: a call with start outside [0, n) raises an index error and returns
\* no tour; neither solver proceeds to compute a path.
C6_InvalidStartRaises ==
    ~ValidStart =>
        /\ pc \notin {"greedy", "bb"}
        /\ pc \in {"main_bb", "done"} => "tsp_greedy" \in raised
        /\ pc = "done" => "tsp_branch_and_bound" \in raised

\* C7: the location a step of tsp_greedy appends is unvisited, at minimum
\* distance from the current location among the unvisited ones, and the
\* lowest index among those tied at that minimum.
C7_NearestLowestIndex ==
    [][pc = "greedy" /\ pc' = "greedy" =>
        LET c == Last(path') IN
            /\ Len(path') = Len(path) + 1
            /\ c \in Cities \ Marked(visited)
            /\ \A j \in Cities \ Marked(visited) :
                /\ distance_matrix[current + 1][c + 1]
                       <= distance_matrix[current + 1][j + 1]
                /\ distance_matrix[current + 1][j + 1]
                       = distance_matrix[current + 1][c + 1] => c <= j]_vars

\* A step of tsp_greedy has just chosen between two unvisited locations at
\* the same minimum distance.
C7_Witness ==
    /\ pc = "greedy"
    /\ Len(path) >= 2
    /\ \E j \in Cities \ Range(path) :
           distance_matrix[path[Len(path) - 1] + 1][j + 1]
               = distance_matrix[path[Len(path) - 1] + 1][Last(path) + 1]

\* The marks and the distance of the active call agree with the path.
C8_State ==
    pc = "bb" /\ stack # <<>> =>
        /\ Marked(visited) = Range(path)
        /\ Top.current_distance = EdgeSum(path)

\* A return to a caller leaves the path and the marks as they were before
\* the descent.
C8_Restore ==
    pc = "bb" /\ Len(stack') < Len(stack) /\ stack' # <<>> =>
        /\ path' = Last(snap).path
        /\ visited' = Last(snap).visited

\* C8: at every node of the search the visited marks are the indices of the
\* current path and current_distance is the sum of the path's edges; after
\* a child returns, the parent's path and marks are what they were before
\* the descent.
C8_SearchState == []C8_State /\ [][C8_Restore]_vars

\* A child below the root has returned to its parent, which goes on.
C8_Witness ==
    /\ pc = "bb"
    /\ Len(stack) >= 2
    /\ Top.next_city >= 1
    /\ Top.line = 75
    /\ nodes > Len(stack)
    /\ best_distance # INF

\* C9 as stated: the number of calls of backtrack is at most (n-1)!.
C9_NodesAtMostFactorial == nodes <= Factorial(n - 1)

\* C9 amended: the search terminates, the number of calls of backtrack is
\* at most the size of the full search tree, the sum over k = 0..n-1 of
\* (n-1)!/(n-1-k)!, and the number of complete paths reached is at most
\* (n-1)!.
C9_TerminatesWithinTree ==
    /\ <>(pc = "done")
    /\ [](nodes <= TreeSize(n - 1) /\ leaves <= Factorial(n - 1))

\* The search has ended after a pruned branch, with more calls than (n-1)!.
C9_Witness ==
    /\ pc = "done"
    /\ n = 4
    /\ nodes > Factorial(n - 1)
    /\ nodes < TreeSize(n - 1)

\* Either nothing is recorded, or the recorded best path is an order from
\* start whose closed-tour length is the recorded best distance.
C10_State ==
    pc = "bb" =>
        \/ best_distance = INF /\ best_path = <<>>
        \/ /\ best_distance # INF
           /\ IsOrder(best_path)
           /\ TourLength(best_path) = best_distance

\* best_distance never increases, and best_path changes only when
\* best_distance strictly decreases.
C10_Step ==
    pc = "bb" /\ pc' = "bb" =>
        /\ best_distance # INF =>
               best_distance' # INF /\ best_distance' <= best_distance
        /\ best_path' # best_path =>
               /\ best_distance' # INF
               /\ best_distance = INF \/ best_distance' < best_distance

\* C10: during the search the recorded best path and best distance agree,
\* best_distance never increases, and best_path changes only at a step
\* where best_distance strictly decreases.
C10_BestRecord == []C10_State /\ [][C10_Step]_vars

\* A recorded tour has been replaced by a strictly shorter one and the
\* working path has moved on.
C10_Witness ==
    /\ pc = "bb"
    /\ best_distance # INF
    /\ best_path # FirstOrder
    /\ path # best_path
    /\ Len(path) < n

====
